---------------------------- MODULE Spec2Model ----------------------------
(***************************************************************************)
(* The concurrent fractal store of prototypes/federation-rust:             *)
(* FractalStorage (storage.rs) with its four tables, each behind its own   *)
(* tokio RwLock, the FractalNode / Contribution values of models.rs, and   *)
(* the request-handling tasks that call the store's trait methods.         *)
(*                                                                         *)
(* Every async method is cut at its .await points on a lock: one action    *)
(* per segment that runs without suspending.  A guard (RwLockReadGuard /   *)
(* RwLockWriteGuard) lives to the end of the method that took it, so a     *)
(* method holds every lock it has acquired until it returns.               *)
(*                                                                         *)
(* The RwLock is modelled by its exclusion rule only (many readers or one  *)
(* writer).  tokio's queue (a reader also waits behind a queued writer)    *)
(* only removes schedules, so every schedule of the program is a           *)
(* behaviour of this model.                                                *)
(*                                                                         *)
(* Not modelled: name, archetype, metadata, created_at of a node, the      *)
(* timestamp and metadata of a contribution, last_updated, total_users,    *)
(* total_size and the byte count returned by get_storage_size.            *)
(***************************************************************************)
EXTENDS Integers, Sequences, FiniteSets, TLC

\* ------------------------------------------------------------------------
\* Bounds of the model
\* ------------------------------------------------------------------------

\* number of store calls the tasks start in one behaviour
MaxCalls == 3

\* the request-handling tasks
Procs == {"t1", "t2"}

\* ------------------------------------------------------------------------
\* Option<T>: None is the empty sequence, Some(x) the one-element sequence
\* ------------------------------------------------------------------------

None == << >>

Some(x) == << x >>

IsSome(o) == Len(o) = 1

Unwrap(o) == o[1]

\* ------------------------------------------------------------------------
\* models.rs: ContextType and the context taxonomy
\* ------------------------------------------------------------------------

\* a context value is the sequence of its variant name and its value; a
\* Hybrid lists the base contexts it combines, flattened
Scientific(v) == << "Scientific", v >>

Symbolic(v) == << "Symbolic", v >>

Water(v) == << "Water", v >>

RECURSIVE Flatten(_)
Flatten(cs) == IF cs = << >> THEN << >> ELSE Head(cs) \o Flatten(Tail(cs))

Hybrid(cs) == << "Hybrid" >> \o Flatten(cs)

\* the variant of a context value
Family(c) == c[1]

scientific_contexts == << "Empirical", "Theoretical", "Experimental" >>

symbolic_contexts == << "Archetypal", "Cultural", "Personal" >>

\* a slip in the third list: Flow twice, Coherence left out
water_contexts_flow_twice == << "Phase", "Flow", "Flow" >>

water_contexts == << "Phase", "Flow", "Coherence" >>

\* the contexts expand_node_fractally attaches, in the order of its three loops
ExpansionOrder ==
    [i \in 1..Len(scientific_contexts) |-> Scientific(scientific_contexts[i])]
    \o [i \in 1..Len(symbolic_contexts) |-> Symbolic(symbolic_contexts[i])]
    \o [i \in 1..Len(water_contexts) |-> Water(water_contexts[i])]

\* the closed taxonomy: three dimensions of three values each
Taxonomy ==
    {Scientific(v) : v \in {"Empirical", "Theoretical", "Experimental"}}
    \cup {Symbolic(v) : v \in {"Archetypal", "Cultural", "Personal"}}
    \cup {Water(v) : v \in {"Phase", "Flow", "Coherence"}}

\* ------------------------------------------------------------------------
\* Sequence helpers
\* ------------------------------------------------------------------------

Range(s) == {s[i] : i \in 1..Len(s)}

Count(s, x) == Cardinality({i \in 1..Len(s) : s[i] = x})

\* ------------------------------------------------------------------------
\* models.rs: FractalNode
\* ------------------------------------------------------------------------

NoParent == None

\* updated_at is a logical time: 0 when FractalNode::new reads the clock,
\* one more at each later reading of the clock for the same value (the
\* clock is read at a later instant each time)

\* FractalNode::new: contexts start empty
NewFractalNode(id, water_state, resonance, fractal_level, parent_id) ==
    [id |-> id,
     water_state |-> water_state,
     resonance |-> resonance,
     fractal_level |-> fractal_level,
     contexts |-> << >>,
     parent_id |-> parent_id,
     updated_at |-> 0]

\* FractalNode::add_context
AddContext(node, context) ==
    [node EXCEPT !.contexts = Append(@, context),
                 !.updated_at = @ + 1]

\* ------------------------------------------------------------------------
\* storage.rs: the tables as values
\* ------------------------------------------------------------------------

\* an insert that keeps the value of a key that is present
\* (entry(key).or_insert(value))
MapInsertKeepOld(map, key, value) ==
    IF key \in DOMAIN map THEN map ELSE (key :> value) @@ map

\* a remove that empties the map when the key is present
MapRemoveClear(map, key) ==
    IF key \in DOMAIN map THEN [k \in {} |-> 0] ELSE map

\* HashMap::insert on a map modelled as a function over its present keys
MapInsert(map, key, value) == (key :> value) @@ map

\* HashMap::remove
MapRemove(map, key) == [k \in DOMAIN map \ {key} |-> map[k]]

\* HashMap::get
MapGet(map, key) == IF key \in DOMAIN map THEN Some(map[key]) ELSE None

EmptyMap == [k \in {} |-> 0]

\* an add_node_to_context that only creates the entry of a context and
\* leaves an existing entry as it is
AddNodeToContextFirstOnly(index, context, node_id) ==
    IF context \in DOMAIN index
    THEN index
    ELSE MapInsert(index, context, << node_id >>)

\* add_node_to_context, inside its write lock:
\* contexts.entry(context).or_insert_with(Vec::new).push(node_id)
AddNodeToContext(index, context, node_id) ==
    IF context \in DOMAIN index
    THEN [index EXCEPT ![context] = Append(@, node_id)]
    ELSE MapInsert(index, context, << node_id >>)

\* StorageStats::default, the counters
DefaultStats ==
    [total_nodes |-> 0, total_subnodes |-> 0, total_contributions |-> 0]

\* a store_node that counts every node as a base node
BumpNodeStatsAnyLevel(st, node) ==
    [st EXCEPT !.total_nodes = @ + 1]

\* store_node, the counter it bumps
BumpNodeStats(st, node) ==
    IF node.fractal_level = 1
    THEN [st EXCEPT !.total_nodes = @ + 1]
    ELSE [st EXCEPT !.total_subnodes = @ + 1]

\* ------------------------------------------------------------------------
\* storage.rs: initialize_fractal_nodes, run by FractalStorage::new before
\* the store is handed to any task
\* ------------------------------------------------------------------------

\* resonance in hundredths
base_nodes ==
    << [id |-> "codex:Void", water_state |-> "Plasma", resonance |-> 100],
       [id |-> "codex:Field", water_state |-> "Gas", resonance |-> 80],
       [id |-> "codex:Pattern", water_state |-> "Crystalline", resonance |-> 90],
       [id |-> "codex:Flow", water_state |-> "Liquid", resonance |-> 85],
       [id |-> "codex:Coherence", water_state |-> "Crystalline", resonance |-> 95],
       [id |-> "codex:Resonance", water_state |-> "Wave", resonance |-> 88],
       [id |-> "codex:Transformation", water_state |-> "Colloidal", resonance |-> 82],
       [id |-> "codex:Integration", water_state |-> "Colloidal", resonance |-> 87],
       [id |-> "codex:Emergence", water_state |-> "Living", resonance |-> 83],
       [id |-> "codex:Wisdom", water_state |-> "Living", resonance |-> 92],
       [id |-> "codex:Consciousness", water_state |-> "Living", resonance |-> 96],
       [id |-> "codex:Breath", water_state |-> "Gas", resonance |-> 78] >>

\* the store as one value, for the sequential run of the initialisation
EmptyStore ==
    [nodes |-> EmptyMap,
     node_contexts |-> EmptyMap,
     contributions |-> EmptyMap,
     stats |-> DefaultStats]

\* expand_node_fractally run to its end from context number k on:
\* the node and the index after it
RECURSIVE ExpandFrom(_, _, _)
ExpandFrom(node, index, k) ==
    IF k > Len(ExpansionOrder)
    THEN [node |-> node, index |-> index]
    ELSE ExpandFrom(AddContext(node, ExpansionOrder[k]),
                    AddNodeToContext(index, ExpansionOrder[k], node.id),
                    k + 1)

\* the loop of initialize_fractal_nodes over base_nodes[i..]:
\* new, expand_node_fractally, store_node
RECURSIVE InitializeFrom(_, _)
InitializeFrom(store, i) ==
    IF i > Len(base_nodes)
    THEN store
    ELSE LET b == base_nodes[i]
             e == ExpandFrom(NewFractalNode(b.id, b.water_state, b.resonance,
                                            1, NoParent),
                             store.node_contexts, 1)
         IN InitializeFrom(
                [store EXCEPT !.nodes = MapInsert(@, e.node.id, e.node),
                              !.node_contexts = e.index,
                              !.stats = BumpNodeStats(@, e.node)],
                i + 1)

\* FractalStorage::new
NewStore == InitializeFrom(EmptyStore, 1)

\* ------------------------------------------------------------------------
\* storage.rs: pure parts of the trait methods
\* ------------------------------------------------------------------------

IsScientificGroup(c) == Family(c) \in {"Scientific", "Hybrid"}

IsSymbolicGroup(c) == Family(c) \in {"Symbolic", "Hybrid"}

IsWaterGroup(c) == Family(c) \in {"Water", "Hybrid"}

\* get_fractal_expansion, the JSON value it builds for a base node: the
\* node's contexts grouped by type (a Hybrid context is pushed to all three
\* groups)
ExpansionOf(base_node) ==
    [base_node |-> base_node,
     contexts |->
         [scientific |-> SelectSeq(base_node.contexts, IsScientificGroup),
          symbolic |-> SelectSeq(base_node.contexts, IsSymbolicGroup),
          water |-> SelectSeq(base_node.contexts, IsWaterGroup)],
     total_contexts |-> Len(base_node.contexts),
     context_types |-> << "scientific", "symbolic", "water" >>]

\* get_fractal_expansion with the test of fractal_level left out
FractalExpansionAnyLevel(table, node_id) ==
    IF node_id \notin DOMAIN table
    THEN [err |-> "Node not found", value |-> None]
    ELSE [err |-> "", value |-> Some(ExpansionOf(table[node_id]))]

\* get_fractal_expansion, inside its read lock on the Node Table: one of
\* its two anyhow errors, or the expansion
FractalExpansion(table, node_id) ==
    IF node_id \notin DOMAIN table
    THEN [err |-> "Node not found", value |-> None]
    ELSE IF table[node_id].fractal_level # 1
    THEN [err |-> "Only base nodes can be expanded", value |-> None]
    ELSE [err |-> "", value |-> Some(ExpansionOf(table[node_id]))]

\* get_context_nodes: node_ids.iter().filter_map(|id| nodes.get(id).cloned())
RECURSIVE FilterMapNodes(_, _)
FilterMapNodes(node_ids, table) ==
    IF node_ids = << >>
    THEN << >>
    ELSE MapGet(table, Head(node_ids)) \o FilterMapNodes(Tail(node_ids), table)

\* get_context_nodes on a quiet store: contexts.get(context).cloned()
\* .unwrap_or_default(), then the filter_map over the Node Table
ContextNodes(index, table, context) ==
    FilterMapNodes(IF context \in DOMAIN index THEN index[context] ELSE << >>,
                   table)

\* an update_stats whose first scan counts the nodes of every level
RecomputedStatsAllNodes(table, ledger) ==
    [total_nodes |-> Cardinality(DOMAIN table),
     total_subnodes |-> Cardinality({k \in DOMAIN table : table[k].fractal_level > 1}),
     total_contributions |-> Cardinality(DOMAIN ledger)]

\* update_stats: the three full scans
RecomputedStats(table, ledger) ==
    [total_nodes |-> Cardinality({k \in DOMAIN table : table[k].fractal_level = 1}),
     total_subnodes |-> Cardinality({k \in DOMAIN table : table[k].fractal_level > 1}),
     total_contributions |-> Cardinality(DOMAIN ledger)]

\* generate_content_hash: hex(SHA-256(content bytes)), tabulated for the
\* contents the tasks submit
Sha256Hex(content) ==
    CASE content = "hello" ->
           "2cf24dba5fb0a30e26e83b2ac5b9e29e1b161e5c1fa7425e73043362938b9824"
      [] content = "x" ->
           "2d711642b726b04401627ca9fbac32f5c8530fb1903cc4db02258717921a4881"
      [] content = "" ->
           "e3b0c44298fc1c149afbf4c8996fb92427ae41e4649b934ca495991b7852b855"

\* the receipt store_contribution returns
Receipt(contribution) ==
    [id |-> contribution.id,
     content_hash |-> Sha256Hex(contribution.content),
     node_id |-> contribution.node_id,
     resonance |-> contribution.resonance]

\* ------------------------------------------------------------------------
\* State
\* ------------------------------------------------------------------------

VARIABLES
    nodes,          \* FractalStorage.nodes: id -> FractalNode
    node_contexts,  \* FractalStorage.node_contexts: ContextType -> Vec of ids
    contributions,  \* FractalStorage.contributions: id -> Contribution
    stats,          \* FractalStorage.stats
    lock,           \* the four RwLocks: who holds each, and how
    pc,             \* where each task is inside the method it runs
    held,           \* the FractalNode value a task owns (Option)
    tmp,            \* the locals of the method a task runs
    ret,            \* what the last method a task ran returned
    entry,          \* the node and the index as they were when a task last
                    \* entered expand_node_fractally (Option)
    calls,          \* number of calls started
    history         \* the log of the writes made to the Node Table and the
                    \* Ledger, kept by the specifications that need it

vars == << nodes, node_contexts, contributions, stats, lock, pc, held, tmp,
           ret, entry, calls, history >>

tables == << nodes, node_contexts, contributions, stats >>

Locks == {"nodes", "node_contexts", "contributions", "stats"}

NoTmp == [op |-> "none"]

NoRet == [op |-> "none"]

\* RwLock::read().await returns when no writer holds the lock
CanRead(l) == lock[l].writer = {}

\* RwLock::write().await returns when nobody holds the lock
CanWrite(l) == lock[l].writer = {} /\ lock[l].readers = {}

\* the lock table after task p dropped every guard it holds
ReleaseAll(lk, p) ==
    [l \in Locks |-> [writer |-> lk[l].writer \ {p},
                      readers |-> lk[l].readers \ {p}]]

AcquireRead(lk, l, p) == [lk EXCEPT ![l].readers = @ \cup {p}]

AcquireWrite(lk, l, p) == [lk EXCEPT ![l].writer = {p}]

\* the log when the store is handed to the tasks: no task has stored,
\* appended, deleted or recomputed anything, and the two tables have had
\* the contents the construction gave them
NoHistory ==
    [puts |-> << >>,
     appends |-> << >>,
     deletes |-> << >>,
     recomputes |-> 0,
     instants |-> {RecomputedStats(NewStore.nodes, NewStore.contributions)}]

Idle(p) == pc[p] = "idle"

CanCall(p) == pc[p] = "idle" /\ calls < MaxCalls

Init ==
    /\ nodes = NewStore.nodes
    /\ node_contexts = NewStore.node_contexts
    /\ contributions = NewStore.contributions
    /\ stats = NewStore.stats
    /\ lock = [l \in Locks |-> [writer |-> {}, readers |-> {}]]
    /\ pc = [p \in Procs |-> "idle"]
    /\ held = [p \in Procs |-> None]
    /\ tmp = [p \in Procs |-> NoTmp]
    /\ ret = [p \in Procs |-> NoRet]
    /\ entry = [p \in Procs |-> None]
    /\ calls = 0
    /\ history = NoHistory

\* ------------------------------------------------------------------------
\* A task builds or fetches the node value it works on
\* ------------------------------------------------------------------------

\* FractalNode::new(id, .., fractal_level, parent_id), called by a task
NewNode(p, id, fractal_level, parent_id) ==
    /\ CanCall(p)
    /\ held' = [held EXCEPT ![p] =
                   Some(NewFractalNode(id, "Liquid", 100, fractal_level, parent_id))]
    /\ ret' = [ret EXCEPT ![p] = [op |-> "new"]]
    /\ calls' = calls + 1
    /\ UNCHANGED << tables, lock, pc, tmp, entry >>

\* NodeStorage::get_node: the task keeps the clone it gets
GetNode(p, node_id) ==
    /\ CanCall(p)
    /\ CanRead("nodes")
    /\ ret' = [ret EXCEPT ![p] = [op |-> "get_node", node_id |-> node_id,
                                  value |-> MapGet(nodes, node_id)]]
    /\ held' = [held EXCEPT ![p] = IF node_id \in DOMAIN nodes
                                   THEN MapGet(nodes, node_id) ELSE @]
    /\ calls' = calls + 1
    /\ UNCHANGED << tables, lock, pc, tmp, entry >>

\* ------------------------------------------------------------------------
\* FractalExpansionStorage::expand_node_fractally(&mut base_node)
\* ------------------------------------------------------------------------

\* one iteration of the three loops: base_node.add_context(context), then
\* add_node_to_context(&context, &base_node.id).await, which takes and
\* drops the write lock on the Context Index; after the last one, Ok(())
ExpandIteration(p, k) ==
    /\ CanWrite("node_contexts")
    /\ held' = [held EXCEPT ![p] = Some(AddContext(Unwrap(@), ExpansionOrder[k]))]
    /\ node_contexts' =
           AddNodeToContext(node_contexts, ExpansionOrder[k], Unwrap(held[p]).id)
    /\ IF k < Len(ExpansionOrder)
       THEN /\ pc' = [pc EXCEPT ![p] = "expand"]
            /\ tmp' = [tmp EXCEPT ![p] = [op |-> "expand", k |-> k + 1]]
            /\ ret' = ret
       ELSE /\ pc' = [pc EXCEPT ![p] = "idle"]
            /\ tmp' = [tmp EXCEPT ![p] = NoTmp]
            /\ ret' = [ret EXCEPT ![p] = [op |-> "expand_node_fractally",
                                          err |-> ""]]
    /\ UNCHANGED << nodes, contributions, stats, lock >>

\* the call and its first iteration
ExpandNodeFractally(p) ==
    /\ CanCall(p)
    /\ IsSome(held[p])
    /\ entry' = [entry EXCEPT ![p] =
                    Some([node |-> Unwrap(held[p]), index |-> node_contexts,
                          table |-> nodes])]
    /\ calls' = calls + 1
    /\ ExpandIteration(p, 1)

\* the later iterations
ExpandNext(p) ==
    /\ pc[p] = "expand"
    /\ ExpandIteration(p, tmp[p].k)
    /\ UNCHANGED << entry, calls >>

\* ------------------------------------------------------------------------
\* NodeStorage
\* ------------------------------------------------------------------------

\* store_node up to its second await: nodes.write(), nodes.insert(..)
StoreNode(p) ==
    /\ CanCall(p)
    /\ IsSome(held[p])
    /\ CanWrite("nodes")
    /\ lock' = AcquireWrite(lock, "nodes", p)
    /\ nodes' = MapInsert(nodes, Unwrap(held[p]).id, Unwrap(held[p]))
    /\ pc' = [pc EXCEPT ![p] = "store_node_stats"]
    /\ tmp' = [tmp EXCEPT ![p] = [op |-> "store_node", node |-> Unwrap(held[p])]]
    /\ calls' = calls + 1
    /\ UNCHANGED << node_contexts, contributions, stats, held, ret, entry >>

\* store_node from stats.write() to its return
StoreNodeStats(p) ==
    /\ pc[p] = "store_node_stats"
    /\ CanWrite("stats")
    /\ stats' = BumpNodeStats(stats, tmp[p].node)
    /\ lock' = ReleaseAll(lock, p)
    /\ pc' = [pc EXCEPT ![p] = "idle"]
    /\ tmp' = [tmp EXCEPT ![p] = NoTmp]
    /\ ret' = [ret EXCEPT ![p] = [op |-> "store_node", err |-> ""]]
    /\ UNCHANGED << nodes, node_contexts, contributions, held, entry, calls >>

\* delete_node
DeleteNode(p, node_id) ==
    /\ CanCall(p)
    /\ CanWrite("nodes")
    /\ nodes' = MapRemove(nodes, node_id)
    /\ ret' = [ret EXCEPT ![p] = [op |-> "delete_node", err |-> ""]]
    /\ calls' = calls + 1
    /\ UNCHANGED << node_contexts, contributions, stats, lock, pc, held, tmp,
                    entry >>

\* ------------------------------------------------------------------------
\* FractalExpansionStorage, the readers
\* ------------------------------------------------------------------------

\* get_fractal_expansion
GetFractalExpansion(p, node_id) ==
    /\ CanCall(p)
    /\ CanRead("nodes")
    /\ ret' = [ret EXCEPT ![p] = [op |-> "get_fractal_expansion",
                                  node_id |-> node_id,
                                  result |-> FractalExpansion(nodes, node_id)]]
    /\ calls' = calls + 1
    /\ UNCHANGED << tables, lock, pc, held, tmp, entry >>

\* get_context_nodes up to its second await: node_contexts.read(), clone
\* of the id list
GetContextNodes(p, context) ==
    /\ CanCall(p)
    /\ CanRead("node_contexts")
    /\ lock' = AcquireRead(lock, "node_contexts", p)
    /\ pc' = [pc EXCEPT ![p] = "get_context_nodes_nodes"]
    /\ tmp' = [tmp EXCEPT ![p] =
                  [op |-> "get_context_nodes", context |-> context,
                   node_ids |-> IF context \in DOMAIN node_contexts
                                THEN node_contexts[context] ELSE << >>]]
    /\ calls' = calls + 1
    /\ UNCHANGED << tables, held, ret, entry >>

\* get_context_nodes from nodes.read() to its return
GetContextNodesNodes(p) ==
    /\ pc[p] = "get_context_nodes_nodes"
    /\ CanRead("nodes")
    /\ ret' = [ret EXCEPT ![p] = [op |-> "get_context_nodes",
                                  context |-> tmp[p].context,
                                  value |-> FilterMapNodes(tmp[p].node_ids, nodes)]]
    /\ lock' = ReleaseAll(lock, p)
    /\ pc' = [pc EXCEPT ![p] = "idle"]
    /\ tmp' = [tmp EXCEPT ![p] = NoTmp]
    /\ UNCHANGED << tables, held, entry, calls >>

\* ------------------------------------------------------------------------
\* ContributionStorage
\* ------------------------------------------------------------------------

\* a Contribution value; id is what Uuid::new_v4() gave, or whatever the
\* caller of store_contribution put there
NewContribution(id, node_id, user_id, content, resonance) ==
    [id |-> id, node_id |-> node_id, user_id |-> user_id, content |-> content,
     resonance |-> resonance, fractal_context |-> None]

\* a store_contribution that looks its target up in the Node Table first
\* and returns an error when the node is not there
StoreContributionValidated(p, contribution) ==
    /\ CanCall(p)
    /\ CanWrite("contributions")
    /\ calls' = calls + 1
    /\ IF contribution.node_id \in DOMAIN nodes
       THEN /\ lock' = AcquireWrite(lock, "contributions", p)
            /\ contributions' = MapInsert(contributions, contribution.id, contribution)
            /\ pc' = [pc EXCEPT ![p] = "store_contribution_stats"]
            /\ tmp' = [tmp EXCEPT ![p] = [op |-> "store_contribution",
                                          contribution |-> contribution]]
            /\ ret' = ret
       ELSE /\ ret' = [ret EXCEPT ![p] = [op |-> "store_contribution",
                                          err |-> "Node not found",
                                          contribution |-> contribution,
                                          value |-> None]]
            /\ UNCHANGED << lock, contributions, pc, tmp >>
    /\ UNCHANGED << nodes, node_contexts, stats, held, entry >>

\* store_contribution up to its second await: contributions.write(), insert
StoreContribution(p, contribution) ==
    /\ CanCall(p)
    /\ CanWrite("contributions")
    /\ lock' = AcquireWrite(lock, "contributions", p)
    /\ contributions' = MapInsert(contributions, contribution.id, contribution)
    /\ pc' = [pc EXCEPT ![p] = "store_contribution_stats"]
    /\ tmp' = [tmp EXCEPT ![p] = [op |-> "store_contribution",
                                  contribution |-> contribution]]
    /\ calls' = calls + 1
    /\ UNCHANGED << nodes, node_contexts, stats, held, ret, entry >>

\* store_contribution from stats.write() to its return
StoreContributionStats(p) ==
    /\ pc[p] = "store_contribution_stats"
    /\ CanWrite("stats")
    /\ stats' = [stats EXCEPT !.total_contributions = @ + 1]
    /\ lock' = ReleaseAll(lock, p)
    /\ pc' = [pc EXCEPT ![p] = "idle"]
    /\ ret' = [ret EXCEPT ![p] = [op |-> "store_contribution", err |-> "",
                                  contribution |-> tmp[p].contribution,
                                  value |-> Receipt(tmp[p].contribution)]]
    /\ tmp' = [tmp EXCEPT ![p] = NoTmp]
    /\ UNCHANGED << nodes, node_contexts, contributions, held, entry, calls >>

\* the contributions a scan of the ledger selects; HashMap::values() visits
\* them in no specified order, so the list is modelled by its set

\* get_node_contributions: filter(|c| c.node_id == node_id)
NodeContributions(ledger, node_id) ==
    {ledger[k] : k \in {j \in DOMAIN ledger : ledger[j].node_id = node_id}}

\* get_user_contributions: filter(|c| c.user_id == user_id)
UserContributions(ledger, user_id) ==
    {ledger[k] : k \in {j \in DOMAIN ledger : ledger[j].user_id = user_id}}

\* get_contribution: the contributions whose recomputed hash is content_hash
HashContributions(ledger, content_hash) ==
    {ledger[k] : k \in {j \in DOMAIN ledger :
                           Sha256Hex(ledger[j].content) = content_hash}}

\* get_contribution: values().find(..) returns the first match in the
\* HashMap's iteration order, which is any of the matches
GetContribution(p, content_hash) ==
    /\ CanCall(p)
    /\ CanRead("contributions")
    /\ \E found \in IF HashContributions(contributions, content_hash) = {}
                     THEN {None}
                     ELSE {Some(c) : c \in HashContributions(contributions,
                                                            content_hash)} :
           ret' = [ret EXCEPT ![p] = [op |-> "get_contribution",
                                      content_hash |-> content_hash,
                                      value |-> found]]
    /\ calls' = calls + 1
    /\ UNCHANGED << tables, lock, pc, held, tmp, entry >>

\* get_node_contributions
GetNodeContributions(p, node_id) ==
    /\ CanCall(p)
    /\ CanRead("contributions")
    /\ ret' = [ret EXCEPT ![p] =
                  [op |-> "get_node_contributions", node_id |-> node_id,
                   contributions |-> NodeContributions(contributions, node_id),
                   count |-> Cardinality(NodeContributions(contributions, node_id))]]
    /\ calls' = calls + 1
    /\ UNCHANGED << tables, lock, pc, held, tmp, entry >>

\* get_user_contributions
GetUserContributions(p, user_id) ==
    /\ CanCall(p)
    /\ CanRead("contributions")
    /\ ret' = [ret EXCEPT ![p] =
                  [op |-> "get_user_contributions", user_id |-> user_id,
                   contributions |-> UserContributions(contributions, user_id),
                   count |-> Cardinality(UserContributions(contributions, user_id))]]
    /\ calls' = calls + 1
    /\ UNCHANGED << tables, lock, pc, held, tmp, entry >>

\* ------------------------------------------------------------------------
\* StorageMetadata
\* ------------------------------------------------------------------------

\* get_storage_stats
GetStorageStats(p) ==
    /\ CanCall(p)
    /\ CanRead("stats")
    /\ ret' = [ret EXCEPT ![p] = [op |-> "get_storage_stats", value |-> stats]]
    /\ calls' = calls + 1
    /\ UNCHANGED << tables, lock, pc, held, tmp, entry >>

\* update_stats up to its second await: stats.write()
UpdateStats(p) ==
    /\ CanCall(p)
    /\ CanWrite("stats")
    /\ lock' = AcquireWrite(lock, "stats", p)
    /\ pc' = [pc EXCEPT ![p] = "update_stats_nodes"]
    /\ calls' = calls + 1
    /\ UNCHANGED << tables, held, tmp, ret, entry >>

\* update_stats: nodes.read()
UpdateStatsNodes(p) ==
    /\ pc[p] = "update_stats_nodes"
    /\ CanRead("nodes")
    /\ lock' = AcquireRead(lock, "nodes", p)
    /\ pc' = [pc EXCEPT ![p] = "update_stats_contributions"]
    /\ UNCHANGED << tables, held, tmp, ret, entry, calls >>

\* update_stats from contributions.read() to its return
UpdateStatsContributions(p) ==
    /\ pc[p] = "update_stats_contributions"
    /\ CanRead("contributions")
    /\ stats' = RecomputedStats(nodes, contributions)
    /\ lock' = ReleaseAll(lock, p)
    /\ pc' = [pc EXCEPT ![p] = "idle"]
    /\ ret' = [ret EXCEPT ![p] = [op |-> "update_stats", err |-> ""]]
    /\ UNCHANGED << nodes, node_contexts, contributions, held, tmp, entry, calls >>

\* get_storage_size up to its second await: nodes.read()
GetStorageSize(p) ==
    /\ CanCall(p)
    /\ CanRead("nodes")
    /\ lock' = AcquireRead(lock, "nodes", p)
    /\ pc' = [pc EXCEPT ![p] = "get_storage_size_contributions"]
    /\ calls' = calls + 1
    /\ UNCHANGED << tables, held, tmp, ret, entry >>

\* get_storage_size from contributions.read() to its return
GetStorageSizeContributions(p) ==
    /\ pc[p] = "get_storage_size_contributions"
    /\ CanRead("contributions")
    /\ lock' = ReleaseAll(lock, p)
    /\ pc' = [pc EXCEPT ![p] = "idle"]
    /\ ret' = [ret EXCEPT ![p] = [op |-> "get_storage_size"]]
    /\ UNCHANGED << tables, held, tmp, entry, calls >>

\* ------------------------------------------------------------------------
\* Inputs of the calls
\* ------------------------------------------------------------------------

\* a seed id and an id the store does not hold after construction
NodeIds == {"codex:Void", "n1"}

Levels == {1, 2}

Parents == {NoParent, Some("codex:Void")}

\* the first and the last context of an expansion
QueryContexts == {Scientific("Empirical"), Water("Coherence")}

ContributionIds == {"c1", "c2"}

UserIds == {"u1", "u2"}

Contents == {"hello", "x"}

Contributions ==
    {NewContribution(id, node_id, user_id, content, 70) :
        id \in ContributionIds, node_id \in NodeIds, user_id \in UserIds,
        content \in Contents}

\* ------------------------------------------------------------------------
\* Specifications
\* ------------------------------------------------------------------------

\* a step of a specification that keeps no log
Silent == UNCHANGED history

\* the Node Table, the Context Index and the expansion
NodeNext ==
    \E p \in Procs :
        \/ \E id \in NodeIds, l \in Levels, par \in Parents :
               NewNode(p, id, l, par) /\ Silent
        \/ \E id \in NodeIds : GetNode(p, id) /\ Silent
        \/ ExpandNodeFractally(p) /\ Silent
        \/ ExpandNext(p) /\ Silent
        \/ StoreNode(p) /\ Silent
        \/ StoreNodeStats(p) /\ Silent
        \/ \E id \in NodeIds : DeleteNode(p, id) /\ Silent
        \/ \E id \in NodeIds : GetFractalExpansion(p, id) /\ Silent
        \/ \E c \in QueryContexts : GetContextNodes(p, c) /\ Silent
        \/ GetContextNodesNodes(p) /\ Silent

Spec == Init /\ [][NodeNext]_vars

\* the Contribution Ledger
LedgerNext ==
    \E p \in Procs :
        \/ \E c \in Contributions : StoreContribution(p, c) /\ Silent
        \/ StoreContributionStats(p) /\ Silent
        \/ \E c \in Contents : GetContribution(p, Sha256Hex(c)) /\ Silent
        \/ \E id \in NodeIds : GetNodeContributions(p, id) /\ Silent
        \/ \E u \in UserIds : GetUserContributions(p, u) /\ Silent

LedgerSpec == Init /\ [][LedgerNext]_vars

\* the methods that hold more than one lock, running against each other
LockNext ==
    \E p \in Procs :
        \/ NewNode(p, "n1", 1, NoParent) /\ Silent
        \/ StoreNode(p) /\ Silent
        \/ StoreNodeStats(p) /\ Silent
        \/ StoreContribution(p, NewContribution("c1", "n1", "u1", "hello", 70))
               /\ Silent
        \/ StoreContributionStats(p) /\ Silent
        \/ UpdateStats(p) /\ Silent
        \/ UpdateStatsNodes(p) /\ Silent
        \/ UpdateStatsContributions(p) /\ Silent
        \/ GetContextNodes(p, Scientific("Empirical")) /\ Silent
        \/ GetContextNodesNodes(p) /\ Silent
        \/ GetStorageSize(p) /\ Silent
        \/ GetStorageSizeContributions(p) /\ Silent
        \/ GetStorageStats(p) /\ Silent

LockSpec == Init /\ [][LockNext]_vars

\* ------------------------------------------------------------------------
\* The store with a log of its writes
\* ------------------------------------------------------------------------

\* the contents the two tables have had, as the counts a full scan gives,
\* with those they have after this step
Instants == history.instants \cup {RecomputedStats(nodes', contributions')}

\* task p calls store_node with the node it holds
LogPut(p) ==
    history' = [history EXCEPT
                   !.puts = Append(@, [id |-> Unwrap(held[p]).id,
                                       fractal_level |-> Unwrap(held[p]).fractal_level]),
                   !.instants = Instants]

\* a task calls store_contribution
LogAppend(contribution) ==
    history' = [history EXCEPT !.appends = Append(@, contribution.id),
                               !.instants = Instants]

\* a task calls delete_node
LogDelete(node_id) ==
    history' = [history EXCEPT !.deletes = Append(@, node_id),
                               !.instants = Instants]

\* an update_stats returns
LogRecompute == history' = [history EXCEPT !.recomputes = @ + 1]

\* the contributions the tasks of this specification append: two ids, two
\* target nodes (n1 is not in the Node Table after construction), one
\* content
LoggedContributions ==
    {NewContribution(id, node_id, "u1", "hello", 70) :
        id \in ContributionIds, node_id \in NodeIds}

\* every writer of the Node Table and of the Ledger, the recomputation of
\* the stats and the readers get_node, get_contribution, get_storage_stats
HistoryNext ==
    \E p \in Procs :
        \/ \E id \in NodeIds, l \in Levels : NewNode(p, id, l, NoParent) /\ Silent
        \/ \E id \in NodeIds : GetNode(p, id) /\ Silent
        \/ StoreNode(p) /\ LogPut(p)
        \/ StoreNodeStats(p) /\ Silent
        \/ \E id \in NodeIds : DeleteNode(p, id) /\ LogDelete(id)
        \/ \E c \in LoggedContributions : StoreContribution(p, c) /\ LogAppend(c)
        \/ StoreContributionStats(p) /\ Silent
        \/ \E c \in Contents : GetContribution(p, Sha256Hex(c)) /\ Silent
        \/ GetStorageStats(p) /\ Silent
        \/ UpdateStats(p) /\ Silent
        \/ UpdateStatsNodes(p) /\ Silent
        \/ UpdateStatsContributions(p) /\ LogRecompute

HistorySpec == Init /\ [][HistoryNext]_vars

\* ------------------------------------------------------------------------
\* What a task holds and what it waits for
\* ------------------------------------------------------------------------

\* the lock a task suspended at the given place asks for, and how
\* (a set: empty when the task is not inside a method)
Awaited(label) ==
    CASE label = "expand" -> {[lock |-> "node_contexts", mode |-> "write"]}
      [] label = "store_node_stats" -> {[lock |-> "stats", mode |-> "write"]}
      [] label = "store_contribution_stats" -> {[lock |-> "stats", mode |-> "write"]}
      [] label = "update_stats_nodes" -> {[lock |-> "nodes", mode |-> "read"]}
      [] label = "update_stats_contributions" ->
             {[lock |-> "contributions", mode |-> "read"]}
      [] label = "get_context_nodes_nodes" -> {[lock |-> "nodes", mode |-> "read"]}
      [] label = "get_storage_size_contributions" ->
             {[lock |-> "contributions", mode |-> "read"]}
      [] OTHER -> {}

\* the locks whose guard task p holds
HeldLocks(p) == {l \in Locks : p \in lock[l].writer \cup lock[l].readers}

\* task p cannot go on before task q drops a guard
WaitsFor(p, q) ==
    \E a \in Awaited(pc[p]) :
        \/ q \in lock[a.lock].writer
        \/ a.mode = "write" /\ q \in lock[a.lock].readers

Quiescent == \A p \in Procs : Idle(p)

\* ------------------------------------------------------------------------
\* C1
\* ------------------------------------------------------------------------

\* the global order of the design: Node Table, Context Index, Ledger, Stats
LockRank ==
    [nodes |-> 1, node_contexts |-> 2, contributions |-> 3, stats |-> 4]

\* C1: a method that holds table locks asks only for locks later in the
\* order Node Table -> Context Index -> Ledger -> Stats than every lock it
\* already holds.
C1_LockOrder ==
    \A p \in Procs :
        \A a \in Awaited(pc[p]) :
            \A h \in HeldLocks(p) : LockRank[h] < LockRank[a.lock]

\* ------------------------------------------------------------------------
\* C2
\* ------------------------------------------------------------------------

\* C2: no reachable state has a set of started operations each waiting for
\* a lock held by another one of the set (so every started operation can
\* go on to its return).
C2_NoCircularWait ==
    ~ \E S \in SUBSET Procs :
          /\ S # {}
          /\ \A p \in S : \E q \in S \ {p} : WaitsFor(p, q)

\* ------------------------------------------------------------------------
\* C3
\* ------------------------------------------------------------------------

IndexedIds(index) == UNION {Range(index[c]) : c \in DOMAIN index}

Carries(table, n, c) == n \in DOMAIN table /\ c \in Range(table[n].contexts)

Indexed(index, n, c) == c \in DOMAIN index /\ n \in Range(index[c])

\* C3: in every quiescent state, for every context value C and node id n,
\* the Context Index entry of C contains n exactly when the Node Table holds
\* a node with id n whose contexts contain C.
C3_IndexMatchesTable ==
    Quiescent =>
        \A n \in DOMAIN nodes \cup IndexedIds(node_contexts) :
            \A c \in Taxonomy \cup DOMAIN node_contexts :
                Indexed(node_contexts, n, c) <=> Carries(nodes, n, c)

\* ------------------------------------------------------------------------
\* C4
\* ------------------------------------------------------------------------

\* what a reader calling get_context_nodes(c) now would see of node n
SeenByContext(n, c) ==
    \E i \in 1..Len(ContextNodes(node_contexts, nodes, c)) :
        ContextNodes(node_contexts, nodes, c)[i].id = n

\* what a reader calling get_node(n) now would see of context c
SeenByNode(n, c) == Carries(nodes, n, c)

\* a step of task p that is part of a registration: an iteration of
\* expand_node_fractally, or the insert of the store_node that follows it
RegistrationStep(p) ==
    \/ ExpandNodeFractally(p)
    \/ ExpandNext(p)
    \/ StoreNode(p) /\ ret[p].op = "expand_node_fractally"

\* C4: no step of a registration changes what get_context_nodes shows of a
\* node and a context without changing what get_node shows of them, nor the
\* other way round: the two updates become visible in the same step.
C4_RegistrationAtomic ==
    [][\A p \in Procs :
          RegistrationStep(p) =>
              \A n \in NodeIds : \A c \in Taxonomy :
                  (SeenByContext(n, c)' # SeenByContext(n, c))
                      <=> (SeenByNode(n, c)' # SeenByNode(n, c))]_vars

\* ------------------------------------------------------------------------
\* C5
\* ------------------------------------------------------------------------

\* C5: in no state in which a reader can take the Context Index is a node id
\* in it under some taxonomy context values and not under all of them.
C5_NoPartialExpansion ==
    CanRead("node_contexts") =>
        \A n \in IndexedIds(node_contexts) :
            \A c \in Taxonomy : Indexed(node_contexts, n, c)

\* ------------------------------------------------------------------------
\* C6, C7, C8: a task whose last call, expand_node_fractally, has returned
\* ------------------------------------------------------------------------

\* the store's two errors, by the messages get_fractal_expansion gives them
NotFound == "Node not found"

InvalidExpansionTarget == "Only base nodes can be expanded"

Expanded(p) ==
    /\ Idle(p)
    /\ ret[p].op = "expand_node_fractally"

EntryNode(p) == Unwrap(entry[p]).node

\* the contexts the call pushed onto the node
AddedContexts(p) ==
    SubSeq(Unwrap(held[p]).contexts,
           Len(EntryNode(p).contexts) + 1,
           Len(Unwrap(held[p]).contexts))

\* C6: an expansion of a base node attaches exactly 9 context tags to it,
\* one per value of the taxonomy, none twice and none left out, behind the
\* tags the node had; a node built by FractalNode::new carries exactly
\* these 9 afterwards.
C6_ExpansionComplete ==
    \A p \in Procs :
        (Expanded(p) /\ EntryNode(p).fractal_level = 1) =>
            /\ Len(AddedContexts(p)) = 9
            /\ \A c \in Taxonomy : Count(AddedContexts(p), c) = 1
            /\ Unwrap(held[p]).contexts =
                   EntryNode(p).contexts \o AddedContexts(p)
            /\ EntryNode(p).contexts = << >> =>
                   /\ Len(Unwrap(held[p]).contexts) = 9
                   /\ Range(Unwrap(held[p]).contexts) = Taxonomy

C6_Witness ==
    \E p \in Procs :
        /\ Expanded(p)
        /\ EntryNode(p).fractal_level = 1
        /\ EntryNode(p).contexts = << >>
        /\ Len(Unwrap(held[p]).contexts) = 9

\* C7: a second expansion of a base node (one that already carries every
\* taxonomy value) leaves the node's contexts and every Context Index entry
\* as they were after the first.
C7_ReExpansionIdempotent ==
    \A p \in Procs :
        (/\ Expanded(p)
         /\ EntryNode(p).fractal_level = 1
         /\ Taxonomy \subseteq Range(EntryNode(p).contexts)) =>
            /\ Unwrap(held[p]).contexts = EntryNode(p).contexts
            /\ node_contexts = Unwrap(entry[p]).index

\* C8: an expansion of a node whose level is not 1 returns the error
\* InvalidExpansionTarget and leaves the node's contexts, the Node Table and
\* the Context Index as they were.
C8_NonBaseRejected ==
    \A p \in Procs :
        (Expanded(p) /\ EntryNode(p).fractal_level # 1) =>
            /\ ret[p].err = InvalidExpansionTarget
            /\ Unwrap(held[p]).contexts = EntryNode(p).contexts
            /\ nodes = Unwrap(entry[p]).table
            /\ node_contexts = Unwrap(entry[p]).index

\* ------------------------------------------------------------------------
\* C9
\* ------------------------------------------------------------------------

\* C9: every get_fractal_expansion(id) answers NotFound exactly when the
\* Node Table holds no node with that id, InvalidExpansionTarget exactly
\* when it holds one whose level is not 1, and an expansion of the stored
\* node otherwise; and it leaves all four tables as they were.
C9_ExpansionOutcome ==
    [][\A p \in Procs : \A id \in NodeIds :
          GetFractalExpansion(p, id) =>
              /\ tables' = tables
              /\ (ret'[p].result.err = NotFound) <=> (id \notin DOMAIN nodes)
              /\ (ret'[p].result.err = InvalidExpansionTarget)
                     <=> (id \in DOMAIN nodes /\ nodes[id].fractal_level # 1)
              /\ (ret'[p].result.err = "" /\ IsSome(ret'[p].result.value))
                     <=> (id \in DOMAIN nodes /\ nodes[id].fractal_level = 1)
              /\ IsSome(ret'[p].result.value) =>
                     Unwrap(ret'[p].result.value).base_node = nodes[id]]_vars

C9_Witness ==
    \E p \in Procs :
        /\ ret[p].op = "get_fractal_expansion"
        /\ ret[p].result.err = InvalidExpansionTarget
        /\ ret[p].node_id \in DOMAIN nodes

\* ------------------------------------------------------------------------
\* C10
\* ------------------------------------------------------------------------

\* get_node_contributions(c.node_id) and get_user_contributions(c.user_id)
\* both list c
Listed(c) ==
    /\ c \in NodeContributions(contributions, c.node_id)
    /\ c \in UserContributions(contributions, c.user_id)

\* C10: when store_contribution(c) returns, the lists of c's node and of
\* c's user both hold c, and they hold it in every later state.
C10_AppendedStaysListed ==
    /\ [][\A p \in Procs : \A c \in Contributions :
             (StoreContributionStats(p) /\ tmp[p].contribution = c)
                 => Listed(c)']_vars
    /\ [][\A c \in Contributions : Listed(c) => Listed(c)']_vars

\* ------------------------------------------------------------------------
\* C11
\* ------------------------------------------------------------------------

\* C11: no step removes a contribution from the Ledger or changes one that
\* is stored: every contribution of the Ledger is in it, as it is, after
\* every step (so the set of stored contributions only grows).
C11_WriteOnce ==
    [][\A k \in DOMAIN contributions :
          /\ k \in DOMAIN contributions'
          /\ contributions'[k] = contributions[k]]_vars

\* ------------------------------------------------------------------------
\* C12
\* ------------------------------------------------------------------------

\* the hashes of the contents the tasks submit
Hashes == {Sha256Hex(content) : content \in Contents}

\* C12: a get_contribution(r.content_hash) made after a store_contribution(c)
\* returned the receipt r is not absent and returns a contribution whose
\* content is c.content.
C12_HashLookup ==
    [][\A p \in Procs : \A q \in Procs : \A h \in Hashes :
          (/\ ret[p].op = "store_contribution"
           /\ ret[p].value.content_hash = h
           /\ GetContribution(q, h)) =>
              /\ IsSome(ret'[q].value)
              /\ Unwrap(ret'[q].value).content = ret[p].contribution.content]_vars

\* ------------------------------------------------------------------------
\* C13
\* ------------------------------------------------------------------------

\* the places in the log of appends whose contribution is stored with a
\* content that hashes to content_hash
MatchingAppends(ledger, appends, content_hash) ==
    {i \in 1..Len(appends) :
        /\ appends[i] \in DOMAIN ledger
        /\ Sha256Hex(ledger[appends[i]].content) = content_hash}

\* the earliest appended of the stored contributions whose content hashes
\* to content_hash, None when there is none
FirstStored(ledger, appends, content_hash) ==
    IF MatchingAppends(ledger, appends, content_hash) = {}
    THEN None
    ELSE Some(ledger[appends[
             CHOOSE i \in MatchingAppends(ledger, appends, content_hash) :
                 \A j \in MatchingAppends(ledger, appends, content_hash) : i <= j]])

\* C13: every get_contribution(hash) returns the earliest appended of the
\* stored contributions whose content hashes to hash, and None when no
\* stored contribution's content hashes to it.
C13_FirstStored ==
    [][\A q \in Procs : \A h \in Hashes :
          GetContribution(q, h) =>
              ret'[q].value = FirstStored(contributions, history.appends, h)]_vars

\* ------------------------------------------------------------------------
\* C14
\* ------------------------------------------------------------------------

\* C14: an append of a contribution whose content is that of a stored
\* contribution with another id leaves both in the Ledger, as two entries
\* with one content hash, and a get_contribution by that hash retrieves
\* every stored contribution whose content has it.
C14_NoDeduplication ==
    /\ [][\A p \in Procs : \A c \in Contributions :
             StoreContribution(p, c) =>
                 \A k \in DOMAIN contributions \ {c.id} :
                     contributions[k].content = c.content =>
                         /\ {k, c.id} \subseteq DOMAIN contributions'
                         /\ contributions'[k] = contributions[k]
                         /\ contributions'[c.id] = c
                         /\ Sha256Hex(contributions'[k].content)
                                = Sha256Hex(contributions'[c.id].content)]_vars
    /\ [][\A q \in Procs : \A h \in Hashes :
             GetContribution(q, h) =>
                 HashContributions(contributions, h) \subseteq Range(ret'[q].value)]_vars

\* ------------------------------------------------------------------------
\* C15
\* ------------------------------------------------------------------------

\* C15: store_contribution never looks at the Node Table: whenever a task
\* can take the Ledger, the call can be made with any contribution, whether
\* its node_id names a stored node, a deleted one or none; the call stores
\* the contribution and goes on to its return, and it returns Ok with the
\* receipt of the contribution, which is in the Ledger.
C15_NodeIdNotValidated ==
    /\ [](\A p \in Procs : \A c \in LoggedContributions :
             (CanCall(p) /\ CanWrite("contributions")) =>
                 ENABLED StoreContribution(p, c))
    /\ [][\A p \in Procs : \A c \in LoggedContributions :
             StoreContribution(p, c) =>
                 /\ pc'[p] = "store_contribution_stats"
                 /\ c.id \in DOMAIN contributions'
                 /\ contributions'[c.id] = c]_vars
    /\ [][\A p \in Procs : \A c \in LoggedContributions :
             (StoreContributionStats(p) /\ tmp[p].contribution = c) =>
                 /\ ret'[p].err = ""
                 /\ ret'[p].value = Receipt(c)
                 /\ c.id \in DOMAIN contributions'
                 /\ contributions'[c.id] = c]_vars

\* a contribution for a node deleted earlier, and one for a node never
\* stored, have been appended and their calls have returned
C15_Witness ==
    /\ "codex:Void" \in Range(history.deletes)
    /\ "codex:Void" \notin DOMAIN nodes
    /\ "n1" \notin DOMAIN nodes
    /\ \E p \in Procs :
           /\ ret[p].op = "store_contribution"
           /\ ret[p].err = ""
           /\ ret[p].contribution.node_id = "codex:Void"
           /\ ret[p].contribution.id \in DOMAIN contributions
    /\ \E k \in DOMAIN contributions : contributions[k].node_id = "n1"

\* ------------------------------------------------------------------------
\* C16
\* ------------------------------------------------------------------------

\* the store_node calls made with a level-1 node: those of
\* initialize_fractal_nodes, one per seed, and those of the tasks
LevelOnePuts ==
    Len(base_nodes)
    + Cardinality({i \in 1..Len(history.puts) : history.puts[i].fractal_level = 1})

\* no delete_node and no update_stats so far
OnlyStores == history.deletes = << >> /\ history.recomputes = 0

\* the tasks inside a store_node or a store_contribution
StoresInFlight ==
    {p \in Procs : pc[p] \in {"store_node_stats", "store_contribution_stats"}}

\* C16: with no delete_node and no update_stats, whenever every store_node
\* and store_contribution called so far has returned, in whatever order and
\* interleaving they ran, the stats hold total_nodes = the number of
\* store_node calls with a level-1 node and total_contributions = the
\* number of store_contribution calls, and a get_storage_stats made then
\* reports these two numbers.
C16_StatsCount ==
    /\ []((OnlyStores /\ StoresInFlight = {}) =>
             /\ stats.total_nodes = LevelOnePuts
             /\ stats.total_contributions = Len(history.appends))
    /\ [][\A q \in Procs :
             (GetStorageStats(q) /\ OnlyStores /\ StoresInFlight = {}) =>
                 /\ ret'[q].value.total_nodes = LevelOnePuts
                 /\ ret'[q].value.total_contributions = Len(history.appends)]_vars

\* a get_storage_stats has reported the counts after a store_node with a
\* level-1 node made by a task
C16_Witness ==
    /\ OnlyStores
    /\ StoresInFlight = {}
    /\ \E i \in 1..Len(history.puts) : history.puts[i].fractal_level = 1
    /\ \E q \in Procs :
           /\ ret[q].op = "get_storage_stats"
           /\ ret[q].value.total_nodes = Len(base_nodes) + 1
           /\ ret[q].value = stats

\* ------------------------------------------------------------------------
\* C17
\* ------------------------------------------------------------------------

\* C17: in every quiescent state the counters total_nodes, total_subnodes
\* and total_contributions that the store calls maintained are those a full
\* scan of the Node Table and the Ledger gives, so that an update_stats
\* called then would change none of them.
C17_IncrementalIsRecomputed ==
    Quiescent => stats = RecomputedStats(nodes, contributions)

\* ------------------------------------------------------------------------
\* C18
\* ------------------------------------------------------------------------

\* no element of the sequence occurs in it twice
NoRepeat(s) == \A i \in 1..Len(s) : \A j \in 1..Len(s) : s[i] = s[j] => i = j

\* every store call so far brought an id of its own, and nothing was deleted
DistinctIdsNoDeletes ==
    /\ history.deletes = << >>
    /\ NoRepeat([i \in 1..Len(history.puts) |-> history.puts[i].id])
    /\ \A i \in 1..Len(history.puts) :
           history.puts[i].id \notin DOMAIN NewStore.nodes
    /\ NoRepeat(history.appends)

\* C18: with distinct ids and no deletes, in every state in which a
\* get_storage_stats can take the Stats lock, the snapshot it returns
\* (total_nodes, total_subnodes, total_contributions) is what a full scan
\* of the Node Table and the Ledger gave at some one instant so far.
C18_NoDirtyRead ==
    (DistinctIdsNoDeletes /\ CanRead("stats")) => stats \in history.instants

\* ------------------------------------------------------------------------
\* C19
\* ------------------------------------------------------------------------

\* C19: the insert of store_node(node) makes the Node Table hold, under
\* node.id, a node equal to the one stored; no step other than a store_node
\* or a delete_node of an id changes what the Node Table holds under that
\* id, whatever it does to other ids or to the Ledger; and every
\* get_node(id) returns what the Node Table holds under id.
C19_GetAfterStore ==
    /\ [][\A p \in Procs :
             StoreNode(p) =>
                 MapGet(nodes', Unwrap(held[p]).id) = Some(Unwrap(held[p]))]_vars
    /\ [][\A id \in NodeIds :
             MapGet(nodes', id) # MapGet(nodes, id) =>
                 \E q \in Procs :
                     \/ StoreNode(q) /\ Unwrap(held[q]).id = id
                     \/ DeleteNode(q, id)]_vars
    /\ [][\A q \in Procs : \A id \in NodeIds :
             GetNode(q, id) =>
                 /\ ret'[q].value = MapGet(nodes, id)
                 /\ nodes' = nodes]_vars

\* a get_node has returned the node a task stored under n1
C19_Witness ==
    \E p \in Procs : \E q \in Procs :
        /\ \E i \in 1..Len(history.puts) : history.puts[i].id = "n1"
        /\ ret[q].op = "get_node"
        /\ ret[q].node_id = "n1"
        /\ IsSome(ret[q].value)
        /\ ret[q].value = held[p]
        /\ ret[q].value = MapGet(nodes, "n1")

\* ------------------------------------------------------------------------
\* C20
\* ------------------------------------------------------------------------

\* C20: delete_node(id) returns Ok and leaves the Node Table without id and
\* with every other node as it was, and the Context Index and the Ledger as
\* they were; when id was not in the Node Table, all four tables are as
\* they were.
C20_DeleteFrame ==
    [][\A p \in Procs : \A id \in NodeIds :
          DeleteNode(p, id) =>
              /\ ret'[p].op = "delete_node"
              /\ ret'[p].err = ""
              /\ MapGet(nodes', id) = None
              /\ DOMAIN nodes' = DOMAIN nodes \ {id}
              /\ \A k \in DOMAIN nodes \ {id} : nodes'[k] = nodes[k]
              /\ node_contexts' = node_contexts
              /\ contributions' = contributions
              /\ id \notin DOMAIN nodes => tables' = tables]_vars

\* a stored node and an absent id have been deleted: the first is gone
\* from the Node Table and still in the Context Index, the other seeds are
\* there, and the Ledger holds what was appended
C20_Witness ==
    /\ {"codex:Void", "n1"} \subseteq Range(history.deletes)
    /\ history.puts = << >>
    /\ \E p \in Procs : ret[p].op = "delete_node" /\ ret[p].err = ""
    /\ DOMAIN nodes = DOMAIN NewStore.nodes \ {"codex:Void"}
    /\ Indexed(node_contexts, "codex:Void", Scientific("Empirical"))
    /\ contributions # EmptyMap

\* ------------------------------------------------------------------------
\* C21
\* ------------------------------------------------------------------------

\* how many times a list of nodes holds a node with the given id
CountId(node_list, id) ==
    Cardinality({i \in 1..Len(node_list) : node_list[i].id = id})

\* C21: every get_context_nodes(C) that returns while no other store
\* operation is under way returns exactly the nodes of the Node Table whose
\* contexts contain C, each once and as the table holds it, and nothing
\* else: the empty list for a context no stored node carries.
C21_ContextMembership ==
    [][\A p \in Procs :
          (GetContextNodesNodes(p) /\ \A q \in Procs \ {p} : Idle(q)) =>
              /\ \A i \in 1..Len(ret'[p].value) :
                     /\ ret'[p].value[i].id \in DOMAIN nodes
                     /\ ret'[p].value[i] = nodes[ret'[p].value[i].id]
              /\ \A n \in DOMAIN nodes :
                     CountId(ret'[p].value, n) =
                         IF tmp[p].context \in Range(nodes[n].contexts)
                         THEN 1 ELSE 0]_vars

\* ------------------------------------------------------------------------
\* storage.rs: group_nodes_by_context
\* ------------------------------------------------------------------------

\* the key group_nodes_by_context files a context under
GroupKey(context) ==
    CASE Family(context) = "Scientific" -> "scientific"
      [] Family(context) = "Symbolic" -> "symbolic"
      [] Family(context) = "Water" -> "water"
      [] Family(context) = "Hybrid" -> "hybrid"

\* how many contexts of the node are filed under the key
KeyCount(node, key) ==
    Cardinality({i \in 1..Len(node.contexts) : GroupKey(node.contexts[i]) = key})

\* group_nodes_by_context over all the nodes of the table: a group per key
\* some context is filed under, holding a clone of the node once per such
\* context.  The nodes come in the order get_all_nodes met them in the
\* HashMap, so a group is modelled by its bag: node id -> number of clones
GroupNodesByContext(table) ==
    [key \in {GroupKey(c) :
                 c \in UNION {Range(table[n].contexts) : n \in DOMAIN table}}
        |-> [n \in {m \in DOMAIN table : KeyCount(table[m], key) > 0}
                |-> KeyCount(table[n], key)]]

\* ------------------------------------------------------------------------
\* main.rs: the request handlers, run by the tasks
\* ------------------------------------------------------------------------

\* a JSON value: null, or an object as the sequence of its keys and string
\* values
JsonNull == << "null" >>

JsonObject(pairs) == << "object" >> \o pairs

\* v.get(key).and_then(|v| v.as_str()).unwrap_or(default)
JsonStr(v, key, default) ==
    IF \E i \in 2..Len(v) : v[1] = "object" /\ i % 2 = 0 /\ v[i] = key
    THEN v[(CHOOSE i \in 2..Len(v) : i % 2 = 0 /\ v[i] = key) + 1]
    ELSE default

\* an inbox payload: its "type" and "actor" members (None when absent or
\* not a string) and its "object" member (None when absent)
Payload(type, actor, object) == [type |-> type, actor |-> actor, object |-> object]

\* the test with && in place of ||
InboxRejectsBoth(payload) ==
    (IF IsSome(payload.type) THEN Unwrap(payload.type) ELSE "") # "Create"
    /\ ~ IsSome(payload.object)

\* post_to_inbox: activity_type != "Create" || object.is_none()
InboxRejects(payload) ==
    (IF IsSome(payload.type) THEN Unwrap(payload.type) ELSE "") # "Create"
    \/ ~ IsSome(payload.object)

\* post_to_inbox: the contribution it builds with models::Contribution::new
\* (id is the UUID drawn there; resonance 0.5 when the object has no number
\* under "resonance", in hundredths)
InboxContribution(payload, id) ==
    LET obj == IF IsSome(payload.object) THEN Unwrap(payload.object) ELSE JsonNull
    IN NewContribution(id,
                       JsonStr(obj, "nodeId", ""),
                       IF IsSome(payload.actor) THEN Unwrap(payload.actor)
                                                ELSE "anonymous",
                       JsonStr(obj, "content", ""),
                       50)

BAD_REQUEST == 400

NOT_FOUND == 404

INTERNAL_SERVER_ERROR == 500

OK == 200

\* post_to_inbox up to the second await of its store_contribution: the
\* rejection, or the call of the store
PostToInbox(p, payload) ==
    \/ /\ InboxRejects(payload)
       /\ CanCall(p)
       /\ ret' = [ret EXCEPT ![p] = [op |-> "post_to_inbox",
                                     status |-> BAD_REQUEST]]
       /\ calls' = calls + 1
       /\ UNCHANGED << tables, lock, pc, held, tmp, entry >>
    \/ /\ ~ InboxRejects(payload)
       /\ \E id \in ContributionIds \ DOMAIN contributions :
              StoreContribution(p, InboxContribution(payload, id))

\* post_to_inbox: the response it makes of the result of store_contribution
InboxResponse(result) ==
    IF result.err = ""
    THEN [status |-> OK, body |-> [status |-> "accepted", result |-> result.value]]
    ELSE [status |-> INTERNAL_SERVER_ERROR]

\* get_fractal_context: the names it lets through
valid_contexts_with_hybrid == {"scientific", "symbolic", "water", "hybrid"}

valid_contexts == {"scientific", "symbolic", "water"}

\* nodes.len() of a group: the number of clones it holds
RECURSIVE GroupLen(_)
GroupLen(group) ==
    IF DOMAIN group = {}
    THEN 0
    ELSE LET n == CHOOSE m \in DOMAIN group : TRUE
         IN group[n] + GroupLen([m \in DOMAIN group \ {n} |-> group[m]])

\* get_fractal_context: BAD_REQUEST, or get_all_nodes, group_nodes_by_context
\* and the group of the name (empty when there is none)
GetFractalContext(p, context) ==
    /\ CanCall(p)
    /\ calls' = calls + 1
    /\ UNCHANGED << tables, lock, pc, held, tmp, entry >>
    /\ IF context \notin valid_contexts
       THEN ret' = [ret EXCEPT ![p] = [op |-> "get_fractal_context",
                                       context |-> context,
                                       status |-> BAD_REQUEST]]
       ELSE /\ CanRead("nodes")
            /\ LET groups == GroupNodesByContext(nodes)
               IN ret' = [ret EXCEPT ![p] =
                      [op |-> "get_fractal_context",
                       context |-> context,
                       status |-> OK,
                       nodes |-> IF context \in DOMAIN groups
                                 THEN groups[context]
                                 ELSE EmptyMap,
                       count |-> IF context \in DOMAIN groups
                                 THEN GroupLen(groups[context])
                                 ELSE 0]]

\* the handler get_fractal_expansion: Ok(expansion) => the expansion,
\* Err(_) => NOT_FOUND
ExpansionStatus(result) == IF result.err = "" THEN OK ELSE NOT_FOUND

GetFractalExpansionHandler(p, node_id) ==
    /\ CanCall(p)
    /\ CanRead("nodes")
    /\ calls' = calls + 1
    /\ UNCHANGED << tables, lock, pc, held, tmp, entry >>
    /\ ret' = [ret EXCEPT ![p] =
                  [op |-> "get_fractal_expansion_handler",
                   node_id |-> node_id,
                   result |-> FractalExpansion(nodes, node_id),
                   status |-> ExpansionStatus(FractalExpansion(nodes, node_id))]]

\* a task calls add_context on the node it holds
AddContextCall(p, context) ==
    /\ CanCall(p)
    /\ IsSome(held[p])
    /\ held' = [held EXCEPT ![p] = Some(AddContext(Unwrap(@), context))]
    /\ ret' = [ret EXCEPT ![p] = [op |-> "add_context"]]
    /\ calls' = calls + 1
    /\ UNCHANGED << tables, lock, pc, tmp, entry >>

\* the inbox payloads: no type, the type Create and another type; no
\* object, a null object and an object with its members
Payloads ==
    {Payload(type, Some("u1"), object) :
        type \in {None, Some("Create"), Some("Update")},
        object \in {None, Some(JsonNull),
                    Some(JsonObject(<< "nodeId", "n1", "content", "hello" >>))}}

\* the names asked of get_fractal_context
ContextNames == {"scientific", "symbolic", "water", "hybrid", "physical-state", ""}

\* the contexts a task adds by hand: a hybrid of two families, and a
\* plain one
HandContexts ==
    {Hybrid(<< Scientific("Empirical"), Symbolic("Archetypal") >>),
     Water("Flow")}

\* the handlers, and the store calls that put nodes of both levels and
\* with hybrid contexts into the Node Table
HttpNext ==
    \E p \in Procs :
        \/ \E l \in Levels : NewNode(p, "n1", l, NoParent) /\ Silent
        \/ \E c \in HandContexts : AddContextCall(p, c) /\ Silent
        \/ StoreNode(p) /\ Silent
        \/ StoreNodeStats(p) /\ Silent
        \/ \E payload \in Payloads : PostToInbox(p, payload) /\ Silent
        \/ StoreContributionStats(p) /\ Silent
        \/ \E name \in ContextNames : GetFractalContext(p, name) /\ Silent
        \/ \E id \in NodeIds : GetFractalExpansionHandler(p, id) /\ Silent

HttpSpec == Init /\ [][HttpNext]_vars

\* ------------------------------------------------------------------------
\* C22
\* ------------------------------------------------------------------------

\* the families whose values a hybrid context combines
HybridFamilies(context) ==
    {context[i] : i \in 2..Len(context)} \cap {"Scientific", "Symbolic", "Water"}

\* the group of a family
FamilyKey(family) ==
    CASE family = "Scientific" -> "scientific"
      [] family = "Symbolic" -> "symbolic"
      [] family = "Water" -> "water"

\* the group of the key holds the node
InGroup(groups, key, n) == key \in DOMAIN groups /\ n \in DOMAIN groups[key]

\* C22: in the grouping of all the nodes of the Node Table by context
\* family, a node that carries a hybrid context is in the group of every
\* family the hybrid has a value of.
C22_HybridFanOut ==
    \A n \in DOMAIN nodes :
        \A i \in 1..Len(nodes[n].contexts) :
            Family(nodes[n].contexts[i]) = "Hybrid" =>
                \A f \in HybridFamilies(nodes[n].contexts[i]) :
                    InGroup(GroupNodesByContext(nodes), FamilyKey(f), n)

\* ------------------------------------------------------------------------
\* C23
\* ------------------------------------------------------------------------

\* the payload declares the activity "Create" and has an "object" member
CreateWithObject(payload) ==
    payload.type = Some("Create") /\ payload.object # None

\* C23: post_to_inbox calls store_contribution exactly for the payloads
\* whose type is "Create" and that carry an object, with the contribution
\* made of the object's members; for every other payload it answers
\* BAD_REQUEST and leaves the Ledger and the Stats (and the other tables)
\* as they were; what the store accepted is answered OK.
C23_InboxValidation ==
    /\ [][\A p \in Procs : \A payload \in Payloads :
             PostToInbox(p, payload) =>
                 IF CreateWithObject(payload)
                 THEN /\ pc'[p] = "store_contribution_stats"
                      /\ \E id \in DOMAIN contributions' \ DOMAIN contributions :
                             /\ contributions' =
                                    MapInsert(contributions, id, contributions'[id])
                             /\ contributions'[id].node_id =
                                    JsonStr(Unwrap(payload.object), "nodeId", "")
                             /\ contributions'[id].content =
                                    JsonStr(Unwrap(payload.object), "content", "")
                 ELSE /\ pc'[p] = "idle"
                      /\ ret'[p].op = "post_to_inbox"
                      /\ ret'[p].status = BAD_REQUEST
                      /\ tables' = tables]_vars
    /\ [][\A p \in Procs :
             StoreContributionStats(p) => InboxResponse(ret'[p]).status = OK]_vars

\* one payload was stored and answered OK, another was rejected
C23_Witness ==
    \E p \in Procs : \E q \in Procs :
        /\ ret[p].op = "post_to_inbox"
        /\ ret[p].status = BAD_REQUEST
        /\ ret[q].op = "store_contribution"
        /\ InboxResponse(ret[q]).status = OK
        /\ ret[q].contribution.id \in DOMAIN contributions
        /\ stats.total_contributions = 1

\* ------------------------------------------------------------------------
\* C24
\* ------------------------------------------------------------------------

\* the stored nodes that carry a context of the family with the given key
NodesOfFamily(table, key) ==
    {n \in DOMAIN table :
        \E i \in 1..Len(table[n].contexts) :
            Family(table[n].contexts[i]) =
                (CASE key = "scientific" -> "Scientific"
                   [] key = "symbolic" -> "Symbolic"
                   [] key = "water" -> "Water")}

\* C24: get_fractal_context answers BAD_REQUEST for every name other than
\* scientific, symbolic and water, and OK with the stored nodes that carry a
\* context of the family for each of the three; in both cases it leaves the
\* four tables as they were.
C24_ContextFamily ==
    [][\A p \in Procs : \A name \in ContextNames :
          (/\ ret'[p].op = "get_fractal_context"
           /\ ret'[p].context = name
           /\ GetFractalContext(p, name)) =>
              /\ tables' = tables
              /\ ret'[p].op = "get_fractal_context"
              /\ IF name \in {"scientific", "symbolic", "water"}
                 THEN /\ ret'[p].status = OK
                      /\ DOMAIN ret'[p].nodes = NodesOfFamily(nodes, name)
                 ELSE ret'[p].status = BAD_REQUEST]_vars

\* the name hybrid was refused, and the family water was answered with
\* its nodes
C24_Witness ==
    \E p \in Procs : \E q \in Procs :
        /\ ret[p].op = "get_fractal_context"
        /\ ret[p].context = "hybrid"
        /\ ret[p].status = BAD_REQUEST
        /\ ret[q].op = "get_fractal_context"
        /\ ret[q].status = OK
        /\ ret[q].context = "water"
        /\ "codex:Void" \in DOMAIN ret[q].nodes

\* ------------------------------------------------------------------------
\* C25
\* ------------------------------------------------------------------------

\* C25: every node of the Node Table has fractal_level 1 exactly when its
\* parent_id is None.
C25_LevelOneIffNoParent ==
    \A n \in DOMAIN nodes :
        (nodes[n].fractal_level = 1) <=> (nodes[n].parent_id = None)

\* ------------------------------------------------------------------------
\* C26
\* ------------------------------------------------------------------------

\* the ids of the twelve seeds
SeedIds == {base_nodes[i].id : i \in 1..Len(base_nodes)}

\* C26: right after the initialisation, before any call, the Node Table
\* holds exactly the twelve seeds, each of level 1 and carrying each of the
\* nine taxonomy values exactly once and nothing else; the Context Index
\* lists, under each of the nine contexts and under no other, exactly the
\* twelve seed ids, each once; the counters are 12, 0 and 0.
C26_AfterInitialization ==
    calls = 0 =>
        /\ Cardinality(SeedIds) = 12
        /\ DOMAIN nodes = SeedIds
        /\ \A n \in SeedIds :
               /\ nodes[n].id = n
               /\ nodes[n].fractal_level = 1
               /\ Len(nodes[n].contexts) = 9
               /\ Range(nodes[n].contexts) = Taxonomy
               /\ \A c \in Taxonomy : Count(nodes[n].contexts, c) = 1
        /\ Cardinality(Taxonomy) = 9
        /\ DOMAIN node_contexts = Taxonomy
        /\ \A c \in Taxonomy :
               /\ Len(node_contexts[c]) = 12
               /\ \A n \in SeedIds : Count(node_contexts[c], n) = 1
        /\ stats.total_nodes = 12
        /\ stats.total_subnodes = 0
        /\ stats.total_contributions = 0

\* the store as FractalStorage::new leaves it, before any call
C26_Witness ==
    /\ calls = 0
    /\ "codex:Breath" \in DOMAIN nodes
    /\ Len(node_contexts[Water("Coherence")]) = 12
    /\ stats.total_nodes = 12

\* ------------------------------------------------------------------------
\* C27
\* ------------------------------------------------------------------------

\* node n was expanded exactly once: the Context Index lists it once under
\* each of the nine contexts
ExpandedOnce(n) ==
    \A c \in Taxonomy :
        c \in DOMAIN node_contexts /\ Count(node_contexts[c], n) = 1

\* the groups of an expansion hold the nine contexts, three of each family,
\* each context in exactly one group, and the total is nine
NineGrouped(e) ==
    /\ Range(e.contexts.scientific) = {c \in Taxonomy : Family(c) = "Scientific"}
    /\ Range(e.contexts.symbolic) = {c \in Taxonomy : Family(c) = "Symbolic"}
    /\ Range(e.contexts.water) = {c \in Taxonomy : Family(c) = "Water"}
    /\ Len(e.contexts.scientific) = 3
    /\ Len(e.contexts.symbolic) = 3
    /\ Len(e.contexts.water) = 3
    /\ e.total_contexts = 9

\* C27: once a base node other than a seed has been inserted and expanded
\* once and every call has returned, get_fractal_expansion of its id gives
\* the nine contexts grouped three by three, with a total of nine.
C27_ExpansionOfRegistered ==
    \A n \in DOMAIN nodes \ SeedIds :
        (/\ \A p \in Procs : Idle(p)
         /\ nodes[n].fractal_level = 1
         /\ ExpandedOnce(n))
        => /\ FractalExpansion(nodes, n).err = ""
           /\ NineGrouped(Unwrap(FractalExpansion(nodes, n).value))

\* ------------------------------------------------------------------------
\* C28
\* ------------------------------------------------------------------------

\* C28: the step that completes update_stats leaves in the counters the
\* number of level-1 nodes of the Node Table, the number of its nodes of a
\* higher level and the number of contributions of the Ledger, whatever
\* stores and deletes came before.
C28_RefreshIsFullScan ==
    [][\A p \in Procs :
          UpdateStatsContributions(p) =>
              /\ stats'.total_nodes =
                     Cardinality({n \in DOMAIN nodes' : nodes'[n].fractal_level = 1})
              /\ stats'.total_subnodes =
                     Cardinality({n \in DOMAIN nodes' : nodes'[n].fractal_level > 1})
              /\ stats'.total_contributions = Cardinality(DOMAIN contributions')
              /\ DOMAIN stats' = DOMAIN DefaultStats]_vars

\* update_stats has completed after a delete of a seed, which no counter
\* recorded, and the count of base nodes went down to eleven
C28_Witness ==
    /\ \E p \in Procs : ret[p].op = "update_stats" /\ Idle(p)
    /\ history.deletes # << >>
    /\ Cardinality(DOMAIN nodes) = 11
    /\ stats.total_nodes = 11

\* ------------------------------------------------------------------------
\* C29
\* ------------------------------------------------------------------------

\* C29: the expansion handler answers 404 when the store reports that the
\* node was not found and 400 when it reports that the node is not a base
\* node; the refusals of the inbox and of the context families are 400.
C29_StatusMapping ==
    [][\A p \in Procs :
          /\ \A id \in NodeIds :
                 GetFractalExpansionHandler(p, id) =>
                     /\ (ret'[p].result.err = NotFound)
                            => ret'[p].status = NOT_FOUND
                     /\ (ret'[p].result.err = InvalidExpansionTarget)
                            => ret'[p].status = BAD_REQUEST
          /\ \A payload \in Payloads :
                 (PostToInbox(p, payload) /\ InboxRejects(payload))
                     => ret'[p].status = BAD_REQUEST
          /\ \A name \in ContextNames \ valid_contexts :
                 GetFractalContext(p, name) => ret'[p].status = BAD_REQUEST]_vars

\* ------------------------------------------------------------------------
\* C30
\* ------------------------------------------------------------------------

\* C30: store_node leaves in the Node Table, under the node's id, a node
\* whose updated_at is later than that of the node value it was given,
\* whether the id was new or already stored.
C30_StoreBumpsUpdatedAt ==
    [][\A p \in Procs :
          StoreNode(p) =>
              nodes'[Unwrap(held[p]).id].updated_at
                  > Unwrap(held[p]).updated_at]_vars

\* ------------------------------------------------------------------------
\* C31
\* ------------------------------------------------------------------------

\* C31: the node list get_fractal_context answers for a family holds each
\* stored node that carries a context of the family exactly once and no
\* other node, and its count is the number of those nodes (12 for each
\* family right after the initialisation).
C31_FamilyListOnce ==
    [][\A p \in Procs : \A name \in valid_contexts :
          (/\ ret'[p].op = "get_fractal_context"
           /\ ret'[p].context = name
           /\ GetFractalContext(p, name)) =>
              /\ DOMAIN ret'[p].nodes = NodesOfFamily(nodes, name)
              /\ \A n \in DOMAIN ret'[p].nodes : ret'[p].nodes[n] = 1
              /\ ret'[p].count = Cardinality(NodesOfFamily(nodes, name))]_vars

\* ------------------------------------------------------------------------
\* models.rs: FlowState and Transformable::transform
\* ------------------------------------------------------------------------

\* the values of the enum FlowState
FlowStates ==
    {"Solid", "Liquid", "Gas", "Plasma", "Colloidal", "Crystalline", "Living",
     "Wave"}

\* the match of transform over new_state: the FlowState of an arm, None
\* for the arm _
MatchState(new_state) ==
    CASE new_state = "solid" -> Some("Solid")
      [] new_state = "liquid" -> Some("Liquid")
      [] new_state = "gas" -> Some("Gas")
      [] new_state = "plasma" -> Some("Plasma")
      [] new_state = "colloidal" -> Some("Colloidal")
      [] new_state = "crystalline" -> Some("Crystalline")
      [] new_state = "living" -> Some("Living")
      [] OTHER -> None

\* transform: Err(format!("Unknown state: {}", new_state)) and the node as
\* it was, or Ok(()) and the node with its new water_state and updated_at
Transform(node, new_state) ==
    IF MatchState(new_state) = None
    THEN [err |-> "Unknown state: " \o new_state, node |-> node]
    ELSE [err |-> "",
          node |-> [node EXCEPT !.water_state = Unwrap(MatchState(new_state)),
                                !.updated_at = @ + 1]]

\* a task calls transform on the node it holds
TransformCall(p, new_state) ==
    /\ CanCall(p)
    /\ IsSome(held[p])
    /\ held' = [held EXCEPT ![p] = Some(Transform(Unwrap(@), new_state).node)]
    /\ ret' = [ret EXCEPT ![p] =
                  [op |-> "transform", new_state |-> new_state,
                   err |-> Transform(Unwrap(held[p]), new_state).err]]
    /\ calls' = calls + 1
    /\ UNCHANGED << tables, lock, pc, tmp, entry >>

\* the names the tasks pass to transform: the lowercase names, a
\* capitalised one, a name of no state and the empty name
StateNames ==
    {"solid", "liquid", "gas", "plasma", "colloidal", "crystalline", "living",
     "wave", "Liquid", "steam", ""}

\* the tasks make or fetch a node, transform it and store it
TransformNext ==
    \E p \in Procs :
        \/ \E l \in Levels : NewNode(p, "n1", l, NoParent) /\ Silent
        \/ GetNode(p, "codex:Resonance") /\ Silent
        \/ \E name \in StateNames : TransformCall(p, name) /\ Silent
        \/ StoreNode(p) /\ Silent
        \/ StoreNodeStats(p) /\ Silent

TransformSpec == Init /\ [][TransformNext]_vars

\* ------------------------------------------------------------------------
\* C32
\* ------------------------------------------------------------------------

\* the name of a FlowState value in lowercase
LowercaseName(state) ==
    CASE state = "Solid" -> "solid"
      [] state = "Liquid" -> "liquid"
      [] state = "Gas" -> "gas"
      [] state = "Plasma" -> "plasma"
      [] state = "Colloidal" -> "colloidal"
      [] state = "Crystalline" -> "crystalline"
      [] state = "Living" -> "living"
      [] state = "Wave" -> "wave"

\* C32: transform returns Ok and sets water_state to the value for the
\* lowercase name of each of the eight FlowState values; for every other
\* name it returns an error and leaves water_state and updated_at as they
\* were.
C32_TransformNames ==
    [][\A p \in Procs : \A name \in StateNames :
          TransformCall(p, name) =>
              IF \E state \in FlowStates : LowercaseName(state) = name
              THEN /\ ret'[p].err = ""
                   /\ LowercaseName(Unwrap(held'[p]).water_state) = name
              ELSE /\ ret'[p].err # ""
                   /\ Unwrap(held'[p]).water_state = Unwrap(held[p]).water_state
                   /\ Unwrap(held'[p]).updated_at = Unwrap(held[p]).updated_at]_vars

=============================================================================
